---- MODULE Spec2Model ----
(***************************************************************************)
(* The external scanner of tree-sitter-wxml (src/scanner.c).               *)
(*                                                                         *)
(* A character is a one-character string; the input is a sequence of       *)
(* characters and NUL is what lexer->lookahead holds at end of input (the  *)
(* input itself holds no NUL).  The lexer record is the part of TSLexer    *)
(* the scanner reads and writes: the cursor, the start of the token (moved *)
(* by advances made with skip set), the end marked by mark_end (-1 while   *)
(* mark_end was not called: the token then ends at the cursor) and         *)
(* result_symbol.  One scan call is run as the sequence of its blocks, one *)
(* action per block of tree_sitter_wxml_external_scanner_scan.  payload is  *)
(* the pointer the host got from create, and calls is the history of the   *)
(* calls made so far, each with what it was given and what it returned.    *)
(***************************************************************************)
EXTENDS Integers, Sequences, FiniteSets, TLC

VARIABLES lexer, valid_symbols, pc, ret, payload, calls

vars == <<lexer, valid_symbols, pc, ret, payload, calls>>

(***************************************************************************)
(* enum TokenType                                                          *)
(***************************************************************************)
START_TAG_NAME == "START_TAG_NAME"
END_TAG_NAME == "END_TAG_NAME"
SELF_CLOSING_TAG_DELIMITER == "SELF_CLOSING_TAG_DELIMITER"
RAW_TEXT == "RAW_TEXT"
COMMENT == "COMMENT"
INTERPOLATION_START == "INTERPOLATION_START"
INTERPOLATION_END == "INTERPOLATION_END"

TokenType ==
  {START_TAG_NAME, END_TAG_NAME, SELF_CLOSING_TAG_DELIMITER, RAW_TEXT,
   COMMENT, INTERPOLATION_START, INTERPOLATION_END}

NoSymbol == "NO_SYMBOL"

(***************************************************************************)
(* Characters and the <wctype.h> classification the scanner uses.          *)
(***************************************************************************)
NUL == "NUL"

LowerCase ==
  <<"a", "b", "c", "d", "e", "f", "g", "h", "i", "j", "k", "l", "m",
    "n", "o", "p", "q", "r", "s", "t", "u", "v", "w", "x", "y", "z">>

UpperCase ==
  <<"A", "B", "C", "D", "E", "F", "G", "H", "I", "J", "K", "L", "M",
    "N", "O", "P", "Q", "R", "S", "T", "U", "V", "W", "X", "Y", "Z">>

Digits == {"0", "1", "2", "3", "4", "5", "6", "7", "8", "9"}

Range(s) == {s[i] : i \in DOMAIN s}

iswalpha(c) == c \in Range(LowerCase) \cup Range(UpperCase)

iswalnum(c) == iswalpha(c) \/ c \in Digits

\* space, \t, \n, \v, \f, \r
iswspace(c) == c \in {" ", "\t", "\n", "\\v", "\f", "\r"}

towupper(c) ==
  IF c \in Range(LowerCase)
  THEN UpperCase[CHOOSE i \in DOMAIN LowerCase : LowerCase[i] = c]
  ELSE c

(***************************************************************************)
(* The TSLexer interface: lookahead, advance(skip), mark_end, and the      *)
(* token the host takes from a successful scan.                            *)
(***************************************************************************)
NewLexer(inp) ==
  [input |-> inp, pos |-> 0, token_start |-> 0, token_end |-> -1,
   result_symbol |-> NoSymbol, advances |-> 0]

lookahead(lx) ==
  IF lx.pos < Len(lx.input) THEN lx.input[lx.pos + 1] ELSE NUL

\* At end of input the call is counted and the cursor stays.
advance(lx, skip) ==
  IF lx.pos < Len(lx.input)
  THEN [lx EXCEPT !.pos = lx.pos + 1,
                  !.token_start = IF skip THEN lx.pos + 1 ELSE lx.token_start,
                  !.advances = lx.advances + 1]
  ELSE [lx EXCEPT !.advances = lx.advances + 1]

mark_end(lx) == [lx EXCEPT !.token_end = lx.pos]

TokenEnd(lx) == IF lx.token_end = -1 THEN lx.pos ELSE lx.token_end

TokenSpan(lx) == SubSeq(lx.input, lx.token_start + 1, TokenEnd(lx))

(***************************************************************************)
(* The lifecycle functions: create returns NULL, serialize writes nothing  *)
(* and returns 0, destroy, reset and deserialize do nothing.               *)
(***************************************************************************)
NULL == "NULL"

create == NULL

destroy(p) == p

reset(p) == p

\* Mutant: one byte (a version tag) is reported as written.
serialize_one_byte(p, buffer) == 1

serialize(p, buffer) == 0

deserialize(p, buffer, length) == p

(***************************************************************************)
(* is_reserved_word                                                        *)
(***************************************************************************)
reserved ==
  << <<"t", "e", "m", "p", "l", "a", "t", "e">>,
     <<"s", "l", "o", "t">>,
     <<"b", "l", "o", "c", "k">>,
     <<"i", "m", "p", "o", "r", "t">>,
     <<"i", "n", "c", "l", "u", "d", "e">>,
     <<"w", "x", "s">> >>

\* strncmp(a, b, n) == 0, for a and b of at least n characters
strncmp_equal(a, b, n) == \A k \in 1..n : a[k] = b[k]

\* Mutant: the loop stops one entry short of the table (i < count - 1).
is_reserved_word_short(word, len) ==
  \E i \in 1..(Len(reserved) - 1) :
    Len(reserved[i]) = len /\ strncmp_equal(reserved[i], word, len)

is_reserved_word(word, len) ==
  \E i \in DOMAIN reserved :
    Len(reserved[i]) = len /\ strncmp_equal(reserved[i], word, len)

(***************************************************************************)
(* scan_tag_name: the recognizers return the lexer as they leave it and    *)
(* the value they return.                                                  *)
(***************************************************************************)
buffer_size == 64

is_name_start(c) == iswalpha(c) \/ c = "_"

\* Mutant: '-' and ':' are left out of the name characters.
is_name_char_plain(c) == iswalnum(c) \/ c = "_"

is_name_char(c) == iswalnum(c) \/ c = "_" \/ c = "-" \/ c = ":"

\* Mutant: the guard leaves no room for the terminator (len < buffer_size).
RECURSIVE tag_name_loop_no_terminator_room(_, _)
tag_name_loop_no_terminator_room(lx, name_buffer) ==
  IF is_name_char(lookahead(lx))
  THEN IF Len(name_buffer) < buffer_size
       THEN tag_name_loop_no_terminator_room(
              advance(lx, FALSE), Append(name_buffer, lookahead(lx)))
       ELSE tag_name_loop_no_terminator_room(advance(lx, FALSE), name_buffer)
  ELSE [lexer |-> lx, name_buffer |-> name_buffer]

RECURSIVE tag_name_loop(_, _)
tag_name_loop(lx, name_buffer) ==
  IF is_name_char(lookahead(lx))
  THEN IF Len(name_buffer) < buffer_size - 1
       THEN tag_name_loop(advance(lx, FALSE),
                          Append(name_buffer, lookahead(lx)))
       ELSE tag_name_loop(advance(lx, FALSE), name_buffer)
  ELSE [lexer |-> lx, name_buffer |-> name_buffer]

scan_tag_name(lx) ==
  IF ~is_name_start(lookahead(lx))
  THEN [lexer |-> lx, value |-> FALSE]
  ELSE LET r == tag_name_loop(lx, <<>>)
           len == Len(r.name_buffer)
       IN IF is_reserved_word(r.name_buffer, len)
          THEN [lexer |-> r.lexer, value |-> FALSE]
          ELSE [lexer |-> r.lexer, value |-> len > 0]

(***************************************************************************)
(* scan_comment                                                            *)
(***************************************************************************)
RECURSIVE comment_loop(_, _)

\* Mutant: end of input ends the comment as if it were closed.
comment_loop_lenient(lx, dashes) ==
  IF lookahead(lx) = NUL
  THEN [lexer |-> lx, value |-> TRUE]
  ELSE IF lookahead(lx) = "-"
  THEN comment_loop(advance(lx, FALSE), dashes + 1)
  ELSE IF lookahead(lx) = ">" /\ dashes >= 2
  THEN [lexer |-> advance(lx, FALSE), value |-> TRUE]
  ELSE comment_loop(advance(lx, FALSE), 0)

comment_loop(lx, dashes) ==
  IF lookahead(lx) = NUL
  THEN [lexer |-> lx, value |-> FALSE]
  ELSE IF lookahead(lx) = "-"
  THEN comment_loop(advance(lx, FALSE), dashes + 1)
  ELSE IF lookahead(lx) = ">" /\ dashes >= 2
  THEN [lexer |-> advance(lx, FALSE), value |-> TRUE]
  ELSE comment_loop(advance(lx, FALSE), 0)

\* Mutant: the two dashes of the opening are counted toward the closing.
scan_comment_counting_open(lx) ==
  IF lookahead(lx) # "<" THEN [lexer |-> lx, value |-> FALSE] ELSE
  LET l1 == advance(lx, FALSE) IN
  IF lookahead(l1) # "!" THEN [lexer |-> l1, value |-> FALSE] ELSE
  LET l2 == advance(l1, FALSE) IN
  IF lookahead(l2) # "-" THEN [lexer |-> l2, value |-> FALSE] ELSE
  LET l3 == advance(l2, FALSE) IN
  IF lookahead(l3) # "-" THEN [lexer |-> l3, value |-> FALSE] ELSE
  comment_loop(advance(l3, FALSE), 2)

scan_comment(lx) ==
  IF lookahead(lx) # "<" THEN [lexer |-> lx, value |-> FALSE] ELSE
  LET l1 == advance(lx, FALSE) IN
  IF lookahead(l1) # "!" THEN [lexer |-> l1, value |-> FALSE] ELSE
  LET l2 == advance(l1, FALSE) IN
  IF lookahead(l2) # "-" THEN [lexer |-> l2, value |-> FALSE] ELSE
  LET l3 == advance(l2, FALSE) IN
  IF lookahead(l3) # "-" THEN [lexer |-> l3, value |-> FALSE] ELSE
  comment_loop(advance(l3, FALSE), 0)

(***************************************************************************)
(* scan_raw_text                                                           *)
(***************************************************************************)
\* Mutant: the letters of the closing tag are compared case-sensitively.
is_wxs_letter_exact(c, letter) == c = letter

is_wxs_letter(c, letter) == towupper(c) = letter

\* Mutant: the character after the < is advanced over before it is looked at.
raw_text_mark_two_advances(lx) ==
  advance(advance(mark_end(lx), FALSE), FALSE)

raw_text_mark(lx) == advance(mark_end(lx), FALSE)

raw_text_return(lx, has_content) ==
  [lexer |-> [lx EXCEPT !.result_symbol = RAW_TEXT], value |-> has_content]

RECURSIVE raw_text_loop(_, _)
raw_text_loop(lx, has_content) ==
  IF lookahead(lx) = NUL THEN raw_text_return(lx, has_content) ELSE
  IF lookahead(lx) # "<" THEN raw_text_loop(advance(lx, FALSE), TRUE) ELSE
  LET l1 == raw_text_mark(lx) IN
  IF lookahead(l1) # "/" THEN raw_text_loop(l1, TRUE) ELSE
  LET l2 == advance(l1, FALSE) IN
  IF ~is_wxs_letter(lookahead(l2), "W") THEN raw_text_loop(l2, TRUE) ELSE
  LET l3 == advance(l2, FALSE) IN
  IF ~is_wxs_letter(lookahead(l3), "X") THEN raw_text_loop(l3, TRUE) ELSE
  LET l4 == advance(l3, FALSE) IN
  IF ~is_wxs_letter(lookahead(l4), "S") THEN raw_text_loop(l4, TRUE) ELSE
  LET l5 == advance(l4, FALSE) IN
  IF lookahead(l5) = ">" THEN raw_text_return(l5, has_content)
  ELSE raw_text_loop(l5, TRUE)

scan_raw_text(lx) == raw_text_loop(lx, FALSE)

(***************************************************************************)
(* tree_sitter_wxml_external_scanner_scan, block by block.  A block either *)
(* returns (returned, with the value) or falls through to the next block   *)
(* with the lexer as it left it.                                           *)
(***************************************************************************)
Return(lx, value) == [lexer |-> lx, returned |-> TRUE, value |-> value]

FallThrough(lx) == [lexer |-> lx, returned |-> FALSE, value |-> FALSE]

SetSymbol(lx, symbol) == [lx EXCEPT !.result_symbol = symbol]

RECURSIVE skip_whitespace(_)

\* Mutant: whitespace is advanced over without the skip flag.
skip_whitespace_unskipped(lx) ==
  IF iswspace(lookahead(lx)) THEN skip_whitespace(advance(lx, FALSE)) ELSE lx

skip_whitespace(lx) ==
  IF iswspace(lookahead(lx)) THEN skip_whitespace(advance(lx, TRUE)) ELSE lx

\* Mutant: the second character is not looked at.
interpolation_start_one_brace(lx, valid) ==
  IF INTERPOLATION_START \in valid /\ lookahead(lx) = "{"
  THEN Return(SetSymbol(advance(lx, FALSE), INTERPOLATION_START), TRUE)
  ELSE FallThrough(lx)

interpolation_start(lx, valid) ==
  IF INTERPOLATION_START \in valid /\ lookahead(lx) = "{"
  THEN LET l1 == advance(lx, FALSE)
       IN IF lookahead(l1) = "{"
          THEN Return(SetSymbol(advance(l1, FALSE), INTERPOLATION_START), TRUE)
          ELSE FallThrough(l1)
  ELSE FallThrough(lx)

interpolation_end(lx, valid) ==
  IF INTERPOLATION_END \in valid /\ lookahead(lx) = "}"
  THEN LET l1 == advance(lx, FALSE)
       IN IF lookahead(l1) = "}"
          THEN Return(SetSymbol(advance(l1, FALSE), INTERPOLATION_END), TRUE)
          ELSE FallThrough(l1)
  ELSE FallThrough(lx)

\* Mutant: the value scan_comment returns is not looked at.
comment_unchecked(lx, valid) ==
  IF COMMENT \in valid /\ lookahead(lx) = "<"
  THEN Return(SetSymbol(scan_comment(lx).lexer, COMMENT), TRUE)
  ELSE FallThrough(lx)

comment(lx, valid) ==
  IF COMMENT \in valid /\ lookahead(lx) = "<"
  THEN LET r == scan_comment(lx)
       IN IF r.value
          THEN Return(SetSymbol(r.lexer, COMMENT), TRUE)
          ELSE FallThrough(r.lexer)
  ELSE FallThrough(lx)

raw_text(lx, valid) ==
  IF RAW_TEXT \in valid
  THEN LET r == scan_raw_text(lx) IN Return(r.lexer, r.value)
  ELSE FallThrough(lx)

\* Mutant: the start tag name is reported whatever is admissible.
tag_name_symbol_always_start(valid) == START_TAG_NAME

\* Mutant: the end tag name is preferred when both are admissible.
tag_name_symbol_prefers_end(valid) ==
  IF END_TAG_NAME \in valid THEN END_TAG_NAME ELSE START_TAG_NAME

tag_name_symbol(valid) ==
  IF START_TAG_NAME \in valid THEN START_TAG_NAME ELSE END_TAG_NAME

tag_name(lx, valid) ==
  IF START_TAG_NAME \in valid \/ END_TAG_NAME \in valid
  THEN LET r == scan_tag_name(lx)
       IN IF r.value
          THEN Return(SetSymbol(r.lexer, tag_name_symbol(valid)), TRUE)
          ELSE FallThrough(r.lexer)
  ELSE FallThrough(lx)

self_closing_tag_delimiter(lx, valid) ==
  IF SELF_CLOSING_TAG_DELIMITER \in valid /\ lookahead(lx) = "/"
  THEN LET l1 == advance(lx, FALSE)
       IN IF lookahead(l1) = ">"
          THEN Return(SetSymbol(advance(l1, FALSE), SELF_CLOSING_TAG_DELIMITER),
                      TRUE)
          ELSE FallThrough(l1)
  ELSE FallThrough(lx)

\* The whole call, as one function of the lexer it is given and valid_symbols.
scan(lx, valid) ==
  LET s1 == interpolation_start(skip_whitespace(lx), valid) IN
  IF s1.returned THEN s1 ELSE
  LET s2 == interpolation_end(s1.lexer, valid) IN
  IF s2.returned THEN s2 ELSE
  LET s3 == comment(s2.lexer, valid) IN
  IF s3.returned THEN s3 ELSE
  LET s4 == raw_text(s3.lexer, valid) IN
  IF s4.returned THEN s4 ELSE
  LET s5 == tag_name(s4.lexer, valid) IN
  IF s5.returned THEN s5 ELSE
  LET s6 == self_closing_tag_delimiter(s5.lexer, valid) IN
  IF s6.returned THEN s6 ELSE
  Return(s6.lexer, FALSE)

\* What the host sees of a call: no match, or the kind and the token's text.
Outcome(lx, value) ==
  IF value
  THEN [match |-> TRUE, kind |-> lx.result_symbol, span |-> TokenSpan(lx)]
  ELSE [match |-> FALSE, kind |-> NoSymbol, span |-> <<>>]

ScanOutcome(inp, valid) ==
  LET r == scan(NewLexer(inp), valid) IN Outcome(r.lexer, r.value)

(***************************************************************************)
(* The calls checked: an input and the valid_symbols of the call.          *)
(***************************************************************************)
MaxLen == 3
MaxParts == 2
MaxComment == 3
MaxWs == 2

\* All sequences over S of length at most n.
StrsUpTo(S, n) == UNION {[1..k -> S] : k \in 0..n}

\* All concatenations of at most n members of P.
RECURSIVE Concats(_, _)
Concats(P, n) ==
  IF n = 0 THEN {<<>>}
  ELSE LET shorter == Concats(P, n - 1)
       IN shorter \cup {p \o q : p \in P, q \in shorter}

Closers ==
  {<<"<", "/", w, x, s, ">">> : w \in {"w", "W"}, x \in {"x", "X"}, s \in {"s", "S"}}

CommentOpen == <<"<", "!", "-", "-">>
CommentClose == <<"-", "-", ">">>

GenericChars == {"{", "}", "<", "/", ">", "a", "!"}

GenericCases ==
  {[input |-> s, valid |-> v] :
     s \in StrsUpTo(GenericChars, MaxLen), v \in SUBSET TokenType}

RawParts ==
  {<<"a">>, <<" ">>, <<"<">>, <<"/">>, <<">">>, <<"<", "/">>,
   <<"<", "/", "w">>, <<"<", "/", "W", "x">>, <<"<", "/", "w", "X", "S">>,
   <<"w", "x", "s", ">">>}

RawTails == {<<>>, <<"a">>, <<"<">>, <<"<", "/", "w", "x", "s", ">">>}

RawCases ==
  {[input |-> b \o c \o r, valid |-> {RAW_TEXT}] :
     b \in Concats(RawParts, MaxParts), c \in Closers \cup {<<>>}, r \in RawTails}

EmptyRawCases ==
  {[input |-> c \o r, valid |-> v \cup {RAW_TEXT}] :
     c \in Closers, r \in RawTails, v \in SUBSET TokenType}

NameParts ==
  Range(reserved) \cup
  {<<"T", "e", "m", "p", "l", "a", "t", "e">>, <<"W", "X", "S">>, <<"w", "x">>,
   <<"a">>, <<"_">>, <<"-">>, <<":">>, <<"1">>}

NameEnds == {<<>>, <<" ">>, <<">">>, <<"/", ">">>}

TagCases ==
  {[input |-> n \o e, valid |-> v] :
     n \in Concats(NameParts, MaxParts), e \in NameEnds,
     v \in {{START_TAG_NAME}, {END_TAG_NAME}, {START_TAG_NAME, END_TAG_NAME}}}

CommentCases ==
  {[input |-> CommentOpen \o b \o c \o r, valid |-> v \cup {COMMENT}] :
     b \in StrsUpTo({"-", ">", "a"}, MaxComment), c \in {<<>>, CommentClose},
     r \in {<<>>, <<"a">>, CommentClose}, v \in SUBSET TokenType}

WsBodies ==
  {<<>>, <<"{", "{">>, <<"}", "}">>, <<"/", ">">>, <<"{", "a">>,
   <<"<", "!", "-", "-", "-", "-", ">">>, <<"d", "i", "v">>, <<"w", "x", "s">>,
   <<"a", "<", "/", "w", "x", "s", ">">>, <<"<", "/", "w", "x", "s", ">">>,
   <<"a", "<", "b">>}

WsCases ==
  {[input |-> w \o b, valid |-> v] :
     w \in StrsUpTo({" ", "\n"}, MaxWs) \ {<<>>}, b \in WsBodies,
     v \in SUBSET TokenType}

\* Names about as long as the buffer and up to MaxOver characters longer:
\* a short name padded with letters.
MaxOver == 2

Pad(w, n) == w \o [i \in 1..(n - Len(w)) |-> "a"]

LongNameCases ==
  {[input |-> Pad(w, n) \o e, valid |-> v] :
     w \in Range(reserved) \cup {<<"a">>, <<"_", "-">>},
     n \in (buffer_size - 2)..(buffer_size + MaxOver),
     e \in {<<>>, <<">">>},
     v \in {{START_TAG_NAME}, {END_TAG_NAME}, {START_TAG_NAME, END_TAG_NAME}}}

CaseFamilies ==
  {GenericCases, RawCases, EmptyRawCases, TagCases, LongNameCases,
   CommentCases, WsCases}

(***************************************************************************)
(* One scan call: the host hands the scanner a fresh lexer at the cursor   *)
(* and the valid_symbols of the parse state.                               *)
(***************************************************************************)
Init ==
  \E family \in CaseFamilies :
    \E c \in family :
      /\ lexer = NewLexer(c.input)
      /\ valid_symbols = c.valid
      /\ pc = "skip_whitespace"
      /\ ret = FALSE
      /\ payload = create
      /\ calls = <<>>

\* An entry of the history: the call, the input or bytes it was given, the
\* valid_symbols and outcome of a scan, the length serialize returned.
NoOutcome == [match |-> FALSE, kind |-> NoSymbol, span |-> <<>>]

LifecycleCall(name, bytes, length) ==
  [call |-> name, input |-> bytes, valid |-> {}, outcome |-> NoOutcome,
   length |-> length]

ScanCall(inp, valid, outcome) ==
  [call |-> "scan", input |-> inp, valid |-> valid, outcome |-> outcome,
   length |-> -1]

\* Leave a block with its result r: return, or go on with block `to`.
Leave(to, r) ==
  /\ lexer' = r.lexer
  /\ pc' = IF r.returned THEN "done" ELSE to
  /\ ret' = IF r.returned THEN r.value ELSE ret
  /\ calls' = IF r.returned
              THEN Append(calls, ScanCall(lexer.input, valid_symbols,
                                          Outcome(r.lexer, r.value)))
              ELSE calls
  /\ UNCHANGED <<valid_symbols, payload>>

SkipWhitespace ==
  /\ pc = "skip_whitespace"
  /\ Leave("interpolation_start", FallThrough(skip_whitespace(lexer)))

InterpolationStart ==
  /\ pc = "interpolation_start"
  /\ Leave("interpolation_end", interpolation_start(lexer, valid_symbols))

InterpolationEnd ==
  /\ pc = "interpolation_end"
  /\ Leave("comment", interpolation_end(lexer, valid_symbols))

Comment ==
  /\ pc = "comment"
  /\ Leave("raw_text", comment(lexer, valid_symbols))

RawText ==
  /\ pc = "raw_text"
  /\ Leave("tag_name", raw_text(lexer, valid_symbols))

TagName ==
  /\ pc = "tag_name"
  /\ Leave("self_closing_tag_delimiter", tag_name(lexer, valid_symbols))

SelfClosingTagDelimiter ==
  /\ pc = "self_closing_tag_delimiter"
  /\ Leave("return_false", self_closing_tag_delimiter(lexer, valid_symbols))

ReturnFalse ==
  /\ pc = "return_false"
  /\ Leave("done", Return(lexer, FALSE))

Next ==
  \/ SkipWhitespace
  \/ InterpolationStart
  \/ InterpolationEnd
  \/ Comment
  \/ RawText
  \/ TagName
  \/ SelfClosingTagDelimiter
  \/ ReturnFalse

Spec == Init /\ [][Next]_vars

(***************************************************************************)
(* The life of a scanner: the host calls create, scan, reset, serialize,   *)
(* deserialize and destroy one after the other, in any order, each call    *)
(* running to its return before the next.                                  *)
(***************************************************************************)
MaxCalls == 4

NoPayload == "NO_PAYLOAD"

LifecycleScans ==
  {[input |-> <<"{", "{">>, valid |-> {INTERPOLATION_START}],
   [input |-> <<"a", "<", "/", "w", "x", "s", ">">>, valid |-> {RAW_TEXT}],
   [input |-> <<"w", "x", "s">>, valid |-> {START_TAG_NAME}],
   [input |-> <<"<", "!", "-", "-", "-", "-", ">">>, valid |-> {COMMENT}]}

DeserializeBuffers == {<<>>, <<"\t", "x">>}

LifecycleInit ==
  /\ lexer = NewLexer(<<>>)
  /\ valid_symbols = {}
  /\ pc = "idle"
  /\ ret = FALSE
  /\ payload = NoPayload
  /\ calls = <<>>

BetweenCalls == pc \in {"idle", "done"} /\ Len(calls) < MaxCalls

Create ==
  /\ BetweenCalls
  /\ payload' = create
  /\ calls' = Append(calls, LifecycleCall("create", <<>>, -1))
  /\ UNCHANGED <<lexer, valid_symbols, pc, ret>>

Destroy ==
  /\ BetweenCalls
  /\ payload' = destroy(payload)
  /\ calls' = Append(calls, LifecycleCall("destroy", <<>>, -1))
  /\ UNCHANGED <<lexer, valid_symbols, pc, ret>>

Reset ==
  /\ BetweenCalls
  /\ payload' = reset(payload)
  /\ calls' = Append(calls, LifecycleCall("reset", <<>>, -1))
  /\ UNCHANGED <<lexer, valid_symbols, pc, ret>>

Serialize ==
  /\ BetweenCalls
  /\ calls' = Append(calls, LifecycleCall("serialize", <<>>,
                                          serialize(payload, <<>>)))
  /\ UNCHANGED <<lexer, valid_symbols, pc, ret, payload>>

Deserialize ==
  /\ BetweenCalls
  /\ \E buffer \in DeserializeBuffers :
       /\ payload' = deserialize(payload, buffer, Len(buffer))
       /\ calls' = Append(calls, LifecycleCall("deserialize", buffer, -1))
  /\ UNCHANGED <<lexer, valid_symbols, pc, ret>>

\* The host calls scan with a fresh lexer; the blocks then run to the return.
StartScan ==
  /\ BetweenCalls
  /\ \E c \in LifecycleScans :
       /\ lexer' = NewLexer(c.input)
       /\ valid_symbols' = c.valid
  /\ pc' = "skip_whitespace"
  /\ ret' = FALSE
  /\ UNCHANGED <<payload, calls>>

LifecycleNext ==
  \/ Create
  \/ Destroy
  \/ Reset
  \/ Serialize
  \/ Deserialize
  \/ StartScan
  \/ SkipWhitespace
  \/ InterpolationStart
  \/ InterpolationEnd
  \/ Comment
  \/ RawText
  \/ TagName
  \/ SelfClosingTagDelimiter
  \/ ReturnFalse

LifecycleSpec == LifecycleInit /\ [][LifecycleNext]_vars

(***************************************************************************)
(* Reading a finished call.                                                *)
(***************************************************************************)
Done == pc = "done"

Input == lexer.input

Result == Outcome(lexer, ret)

NoMatch == Done /\ ~ret

Matched(kind) == Done /\ ret /\ lexer.result_symbol = kind

TypeOK ==
  /\ valid_symbols \subseteq TokenType
  /\ pc \in {"idle", "skip_whitespace", "interpolation_start", "interpolation_end",
             "comment", "raw_text", "tag_name", "self_closing_tag_delimiter",
             "return_false", "done"}
  /\ ret \in BOOLEAN
  /\ lexer.pos \in 0..Len(lexer.input)
  /\ lexer.token_start \in 0..lexer.pos
  /\ lexer.token_end \in -1..lexer.pos

\* The blocks run one after the other give what the whole call gives.
StepsAgreeWithScan == Done => Result = ScanOutcome(Input, valid_symbols)

(***************************************************************************)
(* Reading inputs: where a string occurs, names, leading whitespace.       *)
(***************************************************************************)
Prefix(s, k) == SubSeq(s, 1, k)

Suffix(s, k) == SubSeq(s, k + 1, Len(s))

OccursAt(p, s, i) ==
  /\ i >= 1
  /\ i + Len(p) - 1 <= Len(s)
  /\ SubSeq(s, i, i + Len(p) - 1) = p

Contains(s, p) == \E i \in 1..Len(s) : OccursAt(p, s, i)

\* A case-insensitive </wxs> at index i of s, and somewhere in s.
CloserAt(s, i) == \E c \in Closers : OccursAt(c, s, i)

HasCloser(s) == \E i \in 1..Len(s) : CloserAt(s, i)

Letters == Range(LowerCase) \cup Range(UpperCase)

NameChars == Letters \cup Digits \cup {"_", "-", ":"}

\* [A-Za-z_][A-Za-z0-9_:-]*
IsIdentifier(n) ==
  /\ Len(n) >= 1
  /\ n[1] \in Letters \cup {"_"}
  /\ \A i \in 1..Len(n) : n[i] \in NameChars

\* The name that starts s ends after k characters.
NameEndsAt(s, k) == k = Len(s) \/ (k < Len(s) /\ s[k + 1] \notin NameChars)

Whitespace == {" ", "\t", "\n", "\\v", "\f", "\r"}

RECURSIVE LeadingWhitespace(_)
LeadingWhitespace(s) ==
  IF s # <<>> /\ Head(s) \in Whitespace
  THEN 1 + LeadingWhitespace(Tail(s))
  ELSE 0

(***************************************************************************)
(* C1: with only raw text admissible, on B + C + R where B is not empty,   *)
(* does not start with whitespace and holds no case-insensitive </wxs>,    *)
(* and C is one of the eight case variants of </wxs>, the scan matches raw *)
(* text, the token is exactly B, and it ends where mark_end was last       *)
(* called.                                                                 *)
(***************************************************************************)
RawBodyEndsAt(s, k) ==
  /\ k >= 1
  /\ s[1] \notin Whitespace
  /\ ~HasCloser(Prefix(s, k))
  /\ CloserAt(s, k + 1)

C1_RawTextStopsAtClosingTag ==
  (Done /\ valid_symbols = {RAW_TEXT}) =>
    \A k \in 1..Len(Input) :
      RawBodyEndsAt(Input, k) =>
        /\ Matched(RAW_TEXT)
        /\ TokenSpan(lexer) = Prefix(Input, k)
        /\ lexer.token_end = k

\* A body with a < that starts no closing tag, closed by a tag that is not
\* all lower case and followed by more input.
C1_Witness ==
  /\ Done
  /\ valid_symbols = {RAW_TEXT}
  /\ \E k \in 1..Len(Input) :
       /\ RawBodyEndsAt(Input, k)
       /\ "<" \in Range(Prefix(Input, k))
       /\ Input[k + 3] = "W"
       /\ Len(Input) > k + 6
       /\ TokenSpan(lexer) = Prefix(Input, k)

(***************************************************************************)
(* C2: with start-tag-name and/or end-tag-name the only admissible kinds,  *)
(* a reserved word followed by end of input or by a character that is not  *)
(* a name character is no match.                                           *)
(***************************************************************************)
OnlyTagNames ==
  valid_symbols # {} /\ valid_symbols \subseteq {START_TAG_NAME, END_TAG_NAME}

ReservedWordAtStart(s) ==
  \E i \in DOMAIN reserved :
    OccursAt(reserved[i], s, 1) /\ NameEndsAt(s, Len(reserved[i]))

C2_ReservedWordsNeverTagNames ==
  (Done /\ OnlyTagNames /\ ReservedWordAtStart(Input)) => ~ret

C2_Witness ==
  /\ NoMatch
  /\ valid_symbols = {START_TAG_NAME, END_TAG_NAME}
  /\ OccursAt(<<"w", "x", "s">>, Input, 1)
  /\ NameEndsAt(Input, 3)
  /\ Len(Input) > 3

(***************************************************************************)
(* C3: with only start-tag-name (or only end-tag-name) admissible, an      *)
(* identifier that is not a reserved word (compared case-sensitively),     *)
(* followed by end of input or a character that is not a name character,   *)
(* matches with that kind and the token is exactly the identifier.         *)
(***************************************************************************)
NonReservedNameEndsAt(s, k) ==
  /\ IsIdentifier(Prefix(s, k))
  /\ NameEndsAt(s, k)
  /\ Prefix(s, k) \notin Range(reserved)

C3_NonReservedNameAcceptedWhole ==
  \A kind \in {START_TAG_NAME, END_TAG_NAME} :
    (Done /\ valid_symbols = {kind}) =>
      \A k \in 1..Len(Input) :
        NonReservedNameEndsAt(Input, k) =>
          Matched(kind) /\ TokenSpan(lexer) = Prefix(Input, k)

\* A reserved word that goes on with a hyphen or a colon, as an end tag name.
C3_Witness ==
  /\ Matched(END_TAG_NAME)
  /\ valid_symbols = {END_TAG_NAME}
  /\ \E k \in 1..Len(Input) :
       /\ NonReservedNameEndsAt(Input, k)
       /\ \E i \in DOMAIN reserved :
            /\ OccursAt(reserved[i], Input, 1)
            /\ Len(reserved[i]) < k
            /\ Input[Len(reserved[i]) + 1] \in {"-", ":"}
       /\ TokenSpan(lexer) = Prefix(Input, k)

(***************************************************************************)
(* C4: with comment admissible, on <!-- + S + --> + R where S holds no     *)
(* -->, the scan matches a comment whose token is exactly <!-- + S + -->.  *)
(***************************************************************************)
\* The input opens a comment whose body S is the k characters after <!--.
CommentBodyIs(s, k) ==
  /\ OccursAt(CommentOpen, s, 1)
  /\ OccursAt(CommentClose, s, 5 + k)
  /\ ~Contains(SubSeq(s, 5, 4 + k), CommentClose)

C4_CommentRoundTrip ==
  (Done /\ COMMENT \in valid_symbols) =>
    \A k \in 0..Len(Input) :
      CommentBodyIs(Input, k) =>
        Matched(COMMENT) /\ TokenSpan(lexer) = Prefix(Input, k + 7)

\* A body that starts with > and ends with a dash, with input after -->.
C4_Witness ==
  /\ Matched(COMMENT)
  /\ \E k \in 2..Len(Input) :
       /\ CommentBodyIs(Input, k)
       /\ Input[5] = ">"
       /\ Input[4 + k] = "-"
       /\ Len(Input) > k + 7
       /\ TokenSpan(lexer) = Prefix(Input, k + 7)

(***************************************************************************)
(* C5: with comment admissible, an input that starts with <!-- and has no  *)
(* --> after that opening is no match, whatever else is admissible.        *)
(***************************************************************************)
UnterminatedComment(s) ==
  OccursAt(CommentOpen, s, 1) /\ ~Contains(Suffix(s, 4), CommentClose)

C5_UnterminatedCommentNoMatch ==
  (Done /\ COMMENT \in valid_symbols /\ UnterminatedComment(Input)) => ~ret

\* Two dashes at the end of input, raw text and tag names admissible too.
C5_Witness ==
  /\ NoMatch
  /\ {COMMENT, RAW_TEXT, START_TAG_NAME} \subseteq valid_symbols
  /\ UnterminatedComment(Input)
  /\ Len(Input) >= 7
  /\ Input[Len(Input)] = "-"
  /\ Input[Len(Input) - 1] = "-"

(***************************************************************************)
(* C6: whenever a scan reports interpolation-start, interpolation-end or   *)
(* self-closing-tag-delimiter, the token is exactly {{, }} or />.          *)
(* Violated: a delimiter block whose first character matches and whose     *)
(* second does not has advanced the cursor, and a later block that matches *)
(* reports a token that starts before its delimiter.                       *)
(***************************************************************************)
C6_DelimiterTokenIsTwoCharacters ==
  /\ Matched(INTERPOLATION_START) => TokenSpan(lexer) = <<"{", "{">>
  /\ Matched(INTERPOLATION_END) => TokenSpan(lexer) = <<"}", "}">>
  /\ Matched(SELF_CLOSING_TAG_DELIMITER) => TokenSpan(lexer) = <<"/", ">">>

(***************************************************************************)
(* C7: with only raw text admissible and no case-insensitive </wxs> in the *)
(* input, an input with a character that is not whitespace matches raw     *)
(* text with a token that runs from the end of the leading whitespace to   *)
(* the end of input, and an input without one is no match.                 *)
(* Violated: the token ends where mark_end was last called, at the last <  *)
(* of the input.                                                           *)
(***************************************************************************)
C7_UnterminatedRawTextRunsToEndOfInput ==
  (Done /\ valid_symbols = {RAW_TEXT} /\ ~HasCloser(Input)) =>
    IF LeadingWhitespace(Input) < Len(Input)
    THEN /\ Matched(RAW_TEXT)
         /\ TokenEnd(lexer) = Len(Input)
         /\ TokenSpan(lexer) = Suffix(Input, LeadingWhitespace(Input))
    ELSE ~ret

(***************************************************************************)
(* C8: with raw text admissible, an input that begins with a               *)
(* case-insensitive </wxs> is no match, whatever follows it.               *)
(* Violated when comment is admissible too: the comment block advances     *)
(* over the < before it fails, and the raw text block then scans /wxs> as  *)
(* content.                                                                *)
(***************************************************************************)
C8_EmptyRawTextBodyNoMatch ==
  (Done /\ RAW_TEXT \in valid_symbols /\ CloserAt(Input, 1)) => ~ret

(***************************************************************************)
(* C9: the scan reports the first kind, in the order interpolation-start,  *)
(* interpolation-end, comment, raw-text, tag-name, self-closing-delimiter, *)
(* that is admissible and whose recognizer matches at the cursor, and when *)
(* raw text is admissible and none of the three before it matched, the     *)
(* result is the raw text recognizer's.                                    *)
(* Violated: a block that fails after advancing leaves the cursor moved    *)
(* for the blocks after it.                                                *)
(***************************************************************************)
\* The first block, in the order of the call, that returns when it is run at
\* the cursor lx.
FirstAtCursor(lx, valid) ==
  LET r1 == interpolation_start(lx, valid)
      r2 == interpolation_end(lx, valid)
      r3 == comment(lx, valid)
      r4 == raw_text(lx, valid)
      r5 == tag_name(lx, valid)
      r6 == self_closing_tag_delimiter(lx, valid)
  IN IF r1.returned THEN r1
     ELSE IF r2.returned THEN r2
     ELSE IF r3.returned THEN r3
     ELSE IF r4.returned THEN r4
     ELSE IF r5.returned THEN r5
     ELSE IF r6.returned THEN r6
     ELSE Return(lx, FALSE)

C9_DispatchPriority ==
  Done =>
    LET first == FirstAtCursor(skip_whitespace(NewLexer(Input)), valid_symbols)
    IN Result = Outcome(first.lexer, first.value)

(***************************************************************************)
(* C10: for every run W of whitespace and input I, a scan on W + I gives   *)
(* the outcome (match or no match, kind, token text) of a scan on I, and   *)
(* the token starts after the whitespace.                                  *)
(***************************************************************************)
C10_LeadingWhitespaceIsTrivia ==
  Done =>
    /\ \A k \in 0..LeadingWhitespace(Input) :
         Result = ScanOutcome(Suffix(Input, k), valid_symbols)
    /\ lexer.token_start = LeadingWhitespace(Input)

\* A tag name after two characters of whitespace.
C10_Witness ==
  /\ Matched(START_TAG_NAME)
  /\ LeadingWhitespace(Input) = 2
  /\ TokenSpan(lexer) = <<"d", "i", "v">>

(***************************************************************************)
(* C11: after any sequence of create, scan, reset, serialize, deserialize  *)
(* (with any bytes) and destroy calls, every serialize returned length 0,  *)
(* and two scans with equal input and valid_symbols gave equal outcomes    *)
(* whatever calls came before each.                                        *)
(***************************************************************************)
C11_Stateless ==
  /\ \A i \in DOMAIN calls :
       calls[i].call = "serialize" => calls[i].length = 0
  /\ \A i, j \in DOMAIN calls :
       (/\ calls[i].call = "scan"
        /\ calls[j].call = "scan"
        /\ calls[i].input = calls[j].input
        /\ calls[i].valid = calls[j].valid)
       => calls[i].outcome = calls[j].outcome

\* The same scan before and after a deserialize with bytes, then a serialize.
C11_Witness ==
  /\ Len(calls) = 4
  /\ calls[1].call = "scan"
  /\ calls[1].outcome.match
  /\ calls[2].call = "deserialize"
  /\ calls[2].input # <<>>
  /\ calls[3].call = "scan"
  /\ calls[3].input = calls[1].input
  /\ calls[3].valid = calls[1].valid
  /\ calls[4].call = "serialize"

(***************************************************************************)
(* C12: with interpolation-start the only admissible kind, { followed by   *)
(* end of input or by a character other than { is no match; likewise } not *)
(* followed by } with only interpolation-end admissible, and / not         *)
(* followed by > with only self-closing-tag-delimiter admissible.          *)
(***************************************************************************)
\* s starts with first, and what follows is not second.
PartialDelimiter(s, first, second) ==
  /\ Len(s) >= 1
  /\ s[1] = first
  /\ Len(s) >= 2 => s[2] # second

C12_PartialDelimiterNoMatch ==
  /\ (Done /\ valid_symbols = {INTERPOLATION_START}
           /\ PartialDelimiter(Input, "{", "{")) => ~ret
  /\ (Done /\ valid_symbols = {INTERPOLATION_END}
           /\ PartialDelimiter(Input, "}", "}")) => ~ret
  /\ (Done /\ valid_symbols = {SELF_CLOSING_TAG_DELIMITER}
           /\ PartialDelimiter(Input, "/", ">")) => ~ret

\* { followed by a letter, interpolation-start alone admissible.
C12_Witness ==
  /\ NoMatch
  /\ valid_symbols = {INTERPOLATION_START}
  /\ Len(Input) >= 2
  /\ PartialDelimiter(Input, "{", "{")
  /\ Input[2] = "a"

(***************************************************************************)
(* C13: when interpolation-start, interpolation-end or comment is          *)
(* admissible and its recognizer does not match, the next recognizer       *)
(* starts at the cursor the failed one started at, and the outcome of the  *)
(* scan is that of the same scan with that kind not admissible.            *)
(* Violated: the failed block has advanced over the characters that did    *)
(* match ({, }, <, <!, <!-) and the cursor is not put back.                *)
(***************************************************************************)
C13_FailedAttemptConsumesNothing ==
  /\ pc \in {"interpolation_end", "comment", "raw_text"} =>
       lexer.pos = lexer.token_start
  /\ Done =>
       \A kind \in {INTERPOLATION_START, INTERPOLATION_END, COMMENT} :
         (kind \in valid_symbols /\ ~Matched(kind)) =>
           Result = ScanOutcome(Input, valid_symbols \ {kind})

(***************************************************************************)
(* C14 as claimed: with comment admissible and an input that starts with < *)
(* but not with <!--, the whole scan is no match for every set of          *)
(* admissible kinds.                                                       *)
(* Violated: the comment block falls through when scan_comment fails, and  *)
(* raw text, a tag name or /> is then reported when admissible.            *)
(***************************************************************************)
CommentPrefixMismatch(s) ==
  Len(s) >= 1 /\ s[1] = "<" /\ ~OccursAt(CommentOpen, s, 1)

C14_PrefixMismatchFailsWholeScan ==
  (Done /\ COMMENT \in valid_symbols /\ CommentPrefixMismatch(Input)) => ~ret

(***************************************************************************)
(* C14 amended: with comment admissible and an input that starts with <    *)
(* but not with <!--, no comment is reported, and the scan is no match     *)
(* when none of raw-text, start-tag-name, end-tag-name and                 *)
(* self-closing-tag-delimiter is admissible.                               *)
(***************************************************************************)
C14_PrefixMismatchFailsComment ==
  (Done /\ COMMENT \in valid_symbols /\ CommentPrefixMismatch(Input)) =>
    /\ ~Matched(COMMENT)
    /\ valid_symbols \subseteq
         {COMMENT, INTERPOLATION_START, INTERPOLATION_END} => ~ret

\* <! followed by a character that is not a dash.
C14_Witness ==
  /\ NoMatch
  /\ valid_symbols = {COMMENT, INTERPOLATION_START, INTERPOLATION_END}
  /\ Len(Input) = 3
  /\ Input[1] = "<"
  /\ Input[2] = "!"
  /\ Input[3] # "-"

(***************************************************************************)
(* C15: whenever a scan reports raw text, the token (from the end of the   *)
(* skipped whitespace to the last mark_end, or to the cursor when mark_end *)
(* was not called) holds at least one character.                           *)
(* Violated: on a < that starts no closing tag the end stays marked before *)
(* the <, and has_content is set.                                          *)
(***************************************************************************)
C15_RawTextTokenNotEmpty == Matched(RAW_TEXT) => Len(TokenSpan(lexer)) >= 1

(***************************************************************************)
(* C16: the name captured by scan_tag_name is never longer than            *)
(* buffer_size - 1, and the cursor ends right after the maximal run of     *)
(* name characters; with only start-tag-name (or only end-tag-name)        *)
(* admissible, an identifier longer than buffer_size - 1 characters is     *)
(* matched with that kind and the token is the whole identifier.           *)
(***************************************************************************)
C16_TagNameBufferBound ==
  /\ (/\ pc = "tag_name"
      /\ valid_symbols \cap {START_TAG_NAME, END_TAG_NAME} # {}
      /\ is_name_start(lookahead(lexer))) =>
       LET r == tag_name_loop(lexer, <<>>)
       IN /\ Len(r.name_buffer) <= buffer_size - 1
          /\ r.name_buffer =
               SubSeq(Input, lexer.pos + 1, lexer.pos + Len(r.name_buffer))
          /\ \A i \in (lexer.pos + 1)..r.lexer.pos : Input[i] \in NameChars
          /\ NameEndsAt(Input, r.lexer.pos)
  /\ \A kind \in {START_TAG_NAME, END_TAG_NAME} :
       (Done /\ valid_symbols = {kind}) =>
         \A k \in buffer_size..Len(Input) :
           (IsIdentifier(Prefix(Input, k)) /\ NameEndsAt(Input, k)) =>
             Matched(kind) /\ TokenSpan(lexer) = Prefix(Input, k)

\* A name longer than the buffer that starts with a reserved word.
C16_Witness ==
  /\ Matched(START_TAG_NAME)
  /\ valid_symbols = {START_TAG_NAME}
  /\ OccursAt(<<"w", "x", "s">>, Input, 1)
  /\ Len(TokenSpan(lexer)) > buffer_size
  /\ Len(Input) > Len(TokenSpan(lexer))

(***************************************************************************)
(* C17: a scan of an input of n characters stops: every advance moves the  *)
(* cursor forward by one character, so the advances made never exceed n;   *)
(* the cursor never moves backward from one block to the next; and each    *)
(* step takes the call to a later block or to its return, so the call      *)
(* returns after at most as many steps as there are blocks.                *)
(***************************************************************************)
BlockOrder ==
  <<"skip_whitespace", "interpolation_start", "interpolation_end", "comment",
    "raw_text", "tag_name", "self_closing_tag_delimiter", "return_false",
    "done">>

Rank(p) == CHOOSE i \in DOMAIN BlockOrder : BlockOrder[i] = p

EveryAdvanceMovesCursor ==
  /\ lexer.advances = lexer.pos
  /\ lexer.advances <= Len(Input)
  /\ pc \in Range(BlockOrder)

CursorNeverMovesBackward ==
  /\ lexer'.pos >= lexer.pos
  /\ lexer'.advances >= lexer.advances
  /\ lexer'.input = lexer.input
  /\ Rank(pc') > Rank(pc)

C17_ScanTerminates ==
  /\ []EveryAdvanceMovesCursor
  /\ [][CursorNeverMovesBackward]_vars

\* A scan that has returned after running over the whole of its input.
C17_Witness ==
  /\ Matched(COMMENT)
  /\ Len(Input) > Len(CommentOpen) + Len(CommentClose)
  /\ lexer.advances = Len(Input)

(***************************************************************************)
(* C18: whenever a scan returns a match, the kind it reports is one of the *)
(* valid_symbols of the call; with no valid symbol every scan is no match. *)
(***************************************************************************)
C18_ReportedKindIsAdmissible ==
  Done =>
    /\ ret => lexer.result_symbol \in valid_symbols
    /\ valid_symbols = {} => ~ret

\* An end tag name reported when other kinds are admissible and the start
\* tag name is not.
C18_Witness ==
  /\ Matched(END_TAG_NAME)
  /\ START_TAG_NAME \notin valid_symbols
  /\ Cardinality(valid_symbols) >= 3

(***************************************************************************)
(* C19: with raw text admissible, an input that is whitespace followed by  *)
(* a case-insensitive </wxs> or by the end of input is no match; and when  *)
(* raw text is reported the token starts at the first character that is    *)
(* not whitespace.                                                         *)
(* Violated: with comment admissible too, the failed comment attempt has   *)
(* advanced over the < and the rest of the closing tag is taken as body.   *)
(***************************************************************************)
WhitespaceThenCloserOrEnd(s) ==
  LET rest == Suffix(s, LeadingWhitespace(s))
  IN LeadingWhitespace(s) >= 1 /\ (rest = <<>> \/ rest \in Closers)

C19_WhitespaceOnlyRawTextBody ==
  /\ (Done /\ RAW_TEXT \in valid_symbols /\ WhitespaceThenCloserOrEnd(Input))
       => ~ret
  /\ Matched(RAW_TEXT) => lexer.token_start = LeadingWhitespace(Input)

(***************************************************************************)
(* C20: when a tag name is reported, the kind is start-tag-name whenever   *)
(* start-tag-name is admissible, and end-tag-name only when end-tag-name   *)
(* is admissible and start-tag-name is not; with the other of the two (or  *)
(* both) admissible instead, the scan consumes the same characters and     *)
(* reports the same token.                                                 *)
(***************************************************************************)
TagNameKinds == {START_TAG_NAME, END_TAG_NAME}

C20_TagNameKindChoice ==
  (Done /\ ret /\ lexer.result_symbol \in TagNameKinds) =>
    /\ START_TAG_NAME \in valid_symbols =>
         lexer.result_symbol = START_TAG_NAME
    /\ lexer.result_symbol = END_TAG_NAME =>
         END_TAG_NAME \in valid_symbols /\ START_TAG_NAME \notin valid_symbols
    /\ \A alt \in (SUBSET TagNameKinds) \ {{}} :
         LET r == scan(NewLexer(Input), (valid_symbols \ TagNameKinds) \cup alt)
         IN /\ r.value
            /\ r.lexer.result_symbol =
                 IF START_TAG_NAME \in alt THEN START_TAG_NAME ELSE END_TAG_NAME
            /\ r.lexer.pos = lexer.pos
            /\ TokenSpan(r.lexer) = TokenSpan(lexer)

\* Both kinds admissible: the start tag name is reported.
C20_Witness ==
  /\ Matched(START_TAG_NAME)
  /\ valid_symbols = {START_TAG_NAME, END_TAG_NAME}
  /\ Len(TokenSpan(lexer)) >= 2
  /\ Len(Input) > Len(TokenSpan(lexer))

====
